---- MODULE Spec2Model ----
(***************************************************************************)
(* opensearch-to-webext: conversion of OpenSearch descriptor files into    *)
(* WebExtension staging directories.                                       *)
(*                                                                         *)
(* The repository holds successive evolutions of one tool.  Three of them  *)
(* are modelled side by side, selected by the variable prog:               *)
(*   "run"     : src/index.js, lines 1-192 (one engine per run, into tmp/) *)
(*   "part000" : src/unnamed/part_000 (browser/ search plugins)            *)
(*   "index"   : src/index.js, lines 195-758 (mail/ search plugins)        *)
(* Definitions of the first carry the suffix _run, definitions of part_000 *)
(* the suffix _p0; definitions without a suffix model src/index.js from    *)
(* line 195 on.                                                            *)
(*                                                                         *)
(* Text is modelled by TLA+ strings, on which TLC evaluates Len, \o and    *)
(* SubSeq, so the string operations of the code are computed character by  *)
(* character.                                                              *)
(***************************************************************************)
EXTENDS Integers, Sequences, FiniteSets, TLC

(***************************************************************************)
(* Bounds of the model.                                                    *)
(***************************************************************************)
\* The searchplugins folder holds at most MaxDir descriptor files.
MaxDir == 3
\* At most MaxStale staging directories exist before the run.
MaxStale == 1

(***************************************************************************)
(* JavaScript string primitives used by the code.                          *)
(***************************************************************************)
RECURSIVE indexFrom(_, _, _)
\* position (0-based) of the first occurrence of sub in s at or after the
\* 1-based position i, or -1
indexFrom(s, sub, i) ==
    IF i + Len(sub) - 1 > Len(s) THEN -1
    ELSE IF SubSeq(s, i, i + Len(sub) - 1) = sub THEN i - 1
    ELSE indexFrom(s, sub, i + 1)

\* String.prototype.indexOf
indexOf(s, sub) == indexFrom(s, sub, 1)

\* RegExp.prototype.test for a pattern that is a plain literal
test(pattern, s) == indexOf(s, pattern) # -1

RECURSIVE lastIndexFrom(_, _, _)
lastIndexFrom(s, sub, i) ==
    IF i < 1 THEN -1
    ELSE IF i + Len(sub) - 1 <= Len(s) /\ SubSeq(s, i, i + Len(sub) - 1) = sub
         THEN i - 1
    ELSE lastIndexFrom(s, sub, i - 1)

\* String.prototype.lastIndexOf
lastIndexOf(s, sub) == lastIndexFrom(s, sub, Len(s))

\* String.prototype.slice(start, end); a negative index counts from the end
slice(s, start, end) ==
    LET from == IF start < 0 THEN (IF Len(s) + start < 0 THEN 0 ELSE Len(s) + start)
                ELSE (IF start > Len(s) THEN Len(s) ELSE start)
        to   == IF end < 0 THEN (IF Len(s) + end < 0 THEN 0 ELSE Len(s) + end)
                ELSE (IF end > Len(s) THEN Len(s) ELSE end)
    IN  IF from >= to THEN "" ELSE SubSeq(s, from + 1, to)

\* String.prototype.substr(-n)
substrLast(s, n) == slice(s, 0 - n, Len(s))

\* String.prototype.replace(pattern, replacement) with a string pattern:
\* only the first occurrence is replaced
replace(s, pattern, replacement) ==
    LET i == indexOf(s, pattern)
    IN  IF i = -1 THEN s
        ELSE slice(s, 0, i) \o replacement \o slice(s, i + Len(pattern), Len(s))

\* String.prototype.startsWith
startsWith(s, prefix) ==
    Len(s) >= Len(prefix) /\ SubSeq(s, 1, Len(prefix)) = prefix

\* String.prototype.endsWith
endsWith(s, suffix) ==
    Len(s) >= Len(suffix) /\ substrLast(s, Len(suffix)) = suffix

RECURSIVE trimLeft(_)
trimLeft(s) == IF Len(s) > 0 /\ SubSeq(s, 1, 1) = " " THEN trimLeft(slice(s, 1, Len(s)))
               ELSE s

RECURSIVE trimRight(_)
trimRight(s) == IF Len(s) > 0 /\ SubSeq(s, Len(s), Len(s)) = " "
                THEN trimRight(slice(s, 0, Len(s) - 1))
                ELSE s

\* String.prototype.trim
trim(s) == trimLeft(trimRight(s))

\* file.split('/').pop()
splitPop(s, sep) == slice(s, lastIndexOf(s, sep) + 1, Len(s))

\* s.split('-')[0]
splitFirst(s, sep) ==
    LET i == indexOf(s, sep) IN IF i = -1 THEN s ELSE slice(s, 0, i)

RECURSIVE join(_, _)
\* Array.prototype.join
join(parts, sep) ==
    IF Len(parts) = 0 THEN ""
    ELSE IF Len(parts) = 1 THEN parts[1]
    ELSE parts[1] \o sep \o join(Tail(parts), sep)

\* Array.prototype.includes
includes(arr, x) == \E i \in 1..Len(arr) : arr[i] = x

\* Object.assign(target, source): the source's keys win
assign(target, source) == source @@ target

\* the empty object {}
EmptyObj == <<>>

(***************************************************************************)
(* Program constants.                                                      *)
(***************************************************************************)
SEARCHPLUGINS_FOLDER_p0 == "browser/components/search/searchplugins/"
ICON_RESOURCES_p0 == "browser/components/search/searchplugins/images/"
SEARCHPLUGINS_FOLDER == "mail/components/search/searchplugins/"
ICON_RESOURCES == "mail/components/search/searchplugins/images/"
MULTILOCALE == TRUE
SUGGEST_TYPE == "application/x-suggestions+json"

MANIFEST_p0 ==
    [name |-> "__MSG_extensionName__",
     description |-> "__MSG_extensionDescription__",
     manifest_version |-> 2,
     version |-> "1.0",
     applications |-> [gecko |-> EmptyObj]]

SEARCH_PROVIDER_p0 ==
    [name |-> "__MSG_extensionName__", search_url |-> "__MSG_searchUrl__"]

CONFIG_p0 ==
    [wikipedia |->
       [manifest |-> [applications |-> [gecko |-> [id |-> "wikipedia@mozilla.org"]]],
        search_provider |->
          [keyword |-> "wp",
           favicon_url |-> "https://__MSG_url_lang__.wikipedia.org/static/favicon/wikipedia.ico",
           search_url |-> "https://__MSG_url_lang__.wikipedia.org/wiki/__MSG_url_landing__?sourceid=Mozilla-search&search={searchTerms}&lang={language}&oe={outputEncoding}&ml={moz:locale}&mdi={moz:distributionID}&mo={moz:official}",
           suggest_url |-> "https://__MSG_url_lang__.wikipedia.org/w/api.php?action=opensearch&search={searchTerms}"],
        messages |-> [url_landing |-> [message |-> "Special:Search"]]]]

MANIFEST ==
    [name |-> "__MSG_extensionName__",
     description |-> "__MSG_extensionDescription__",
     manifest_version |-> 2,
     version |-> "1.0",
     applications |-> [gecko |-> EmptyObj]]

SEARCH_PROVIDER ==
    [name |-> "__MSG_extensionName__", search_url |-> "__MSG_searchUrl__"]

CONFIG == EmptyObj

\* copy(obj): a deep copy; values of the model are immutable, so the copy of
\* an object is the object and the copy of undefined is {}
copy(obj) == obj

\* CONFIG[engine] || {}
confOf(config, engine) ==
    IF engine \in DOMAIN config THEN config[engine] ELSE EmptyObj

\* copy(conf.<section>): {} when the section is undefined
section(conf, key) == IF key \in DOMAIN conf THEN copy(conf[key]) ELSE EmptyObj

(***************************************************************************)
(* Descriptor files.  A file's content is what xml-to-json yields for it:  *)
(* marker tells whether the text holds one of the two root-element         *)
(* openings, plugin is the root element's object; an element or attribute   *)
(* that is absent from the file is absent from the record.                 *)
(***************************************************************************)
P_q == [name |-> "q", value |-> "{searchTerms}"]
P_f == [name |-> "format", value |-> "json"]

\* primary endpoint, GET (by default), http: template, two parameters
U_get == [type |-> "text/html", template |-> "http://x.test/search",
          Param |-> <<P_q, P_f>>]
\* primary endpoint whose template already has a query string
U_getq == [type |-> "text/html", method |-> "GET",
           template |-> "https://x.test/search?x=1", Param |-> <<P_q, P_f>>]
\* primary endpoint without parameters; https: template quoting an http: url
U_bare == [type |-> "text/html", method |-> "GET",
           template |-> "https://x.test/go?u=http://y.test/{searchTerms}"]
\* primary endpoint, POST, with vendor parameters
U_post == [type |-> "text/html", method |-> "POST",
           template |-> "https://x.test/search", Param |-> <<P_q, P_f>>,
           MozParam |-> <<[name |-> "pc", value |-> "MOZI"]>>]
\* primary endpoint with purpose-tagged vendor parameters
U_moz == [type |-> "text/html", method |-> "GET",
          template |-> "https://x.test/search", Param |-> <<P_q>>,
          MozParam |-> <<[name |-> "clid", value |-> "2186618", purpose |-> "searchbar"]>>]
\* suggestion endpoints, without and with a query string in the template
U_sug == [type |-> SUGGEST_TYPE, method |-> "GET",
          template |-> "http://x.test/complete", Param |-> <<P_q>>]
U_sugq == [type |-> SUGGEST_TYPE, method |-> "GET",
           template |-> "https://x.test/complete?x=1", Param |-> <<P_q>>]
\* search form endpoint
U_form == [type |-> "text/html", rel |-> "searchform", method |-> "GET",
           template |-> "https://x.test/?h=1", Param |-> <<P_f>>]

I_ico == <<[text |-> " data:image/x-icon;base64,AAAB "]>>
I_svg == <<[text |-> "data:image/svg+xml;base64,PHN2"]>>
I_http == <<[text |-> "http://x.test/favicon.ico"]>>
I_res == <<[text |-> "resource://search-plugins/images/foo.ico"]>>
I_odd == <<[text |-> "chrome://x/skin/foo.png"]>>

Doc(root, plugin) == [marker |-> TRUE, root |-> root, plugin |-> plugin]

D_full   == Doc("SearchPlugin",
              [ShortName |-> <<"Foo">>, Description |-> <<"Foo Search">>,
               Url |-> <<U_sug, U_get, U_form>>, Image |-> I_ico])
D_query  == Doc("OpenSearchDescription",
              [ShortName |-> <<"Foo Q">>, Description |-> <<"Foo Q Search">>,
               Url |-> <<U_getq, U_sugq>>, Image |-> I_svg,
               SearchForm |-> <<"https://x.test/">>])
D_bare   == Doc("SearchPlugin",
              [ShortName |-> <<"Foo B">>, Description |-> <<"Foo B Search">>,
               Url |-> <<U_bare>>, Image |-> I_http])
D_post   == Doc("SearchPlugin",
              [ShortName |-> <<"Foo P">>, Description |-> <<"Foo P Search">>,
               Url |-> <<U_post>>, Image |-> I_res])
D_moz    == Doc("SearchPlugin",
              [ShortName |-> <<"Foo M">>, Description |-> <<"Foo M Search">>,
               Url |-> <<U_moz>>, Image |-> I_ico])
D_odd    == Doc("SearchPlugin",
              [ShortName |-> <<"Foo O">>, Description |-> <<"Foo O Search">>,
               Url |-> <<U_bare>>, Image |-> I_odd])
D_noicon == Doc("SearchPlugin",
              [ShortName |-> <<"Foo N">>, Description |-> <<"Foo N Search">>,
               Url |-> <<U_bare>>])
D_sugonly == Doc("SearchPlugin",
              [ShortName |-> <<"Foo U">>, Description |-> <<"Foo U Search">>,
               Url |-> <<U_sug>>, Image |-> I_ico])
D_noname == Doc("SearchPlugin",
              [Description |-> <<"No name">>, Url |-> <<U_bare>>, Image |-> I_ico])
D_nodesc == Doc("SearchPlugin",
              [ShortName |-> <<"Foo D">>, Url |-> <<U_bare>>, Image |-> I_ico])
D_nourl  == Doc("SearchPlugin",
              [ShortName |-> <<"Foo E">>, Description |-> <<"No endpoint">>,
               Image |-> I_ico])
\* a text with neither <SearchPlugin nor <OpenSearchDescription
D_nomarker == [marker |-> FALSE]

\* the contents a descriptor file may have
Descriptors ==
    {D_full, D_query, D_bare, D_post, D_moz, D_odd, D_noicon,
     D_sugonly, D_noname, D_nodesc, D_nourl, D_nomarker}

\* the descriptor files the searchplugins folder may hold, in the order
\* glob lists them
AllNames ==
    <<"bar-de.xml", "bar-fr.xml", "bar.xml", "bbc-alba.xml", "bbc.xml",
      "foo-zh-TW.xml", "wikipedia.xml">>

\* the values of --gecko-path
GeckoPaths == {"/g/", "/my-g/"}

(***************************************************************************)
(* Endpoint resolution, icon helpers and locale resolution of part_000.    *)
(***************************************************************************)
RECURSIVE pairs(_)
\* for (const param of urlObj.Param) params.push(name + '=' + value)
pairs(Param) ==
    IF Len(Param) = 0 THEN <<>>
    ELSE <<Param[1].name \o "=" \o Param[1].value>> \o pairs(Tail(Param))

\* the url of parseUrlObj's result
urlOf_p0(urlObj) ==
    LET url == replace(urlObj.template, "http:", "https:")
    IN  IF "Param" \in DOMAIN urlObj /\ ~("method" \in DOMAIN urlObj /\ urlObj.method = "POST")
        THEN LET prepend == IF indexOf(url, "?") = -1 THEN "?" ELSE ""
             IN  url \o prepend \o join(pairs(urlObj.Param), "&")
        ELSE url

parseUrlObj_p0(urlObj) ==
    LET base == [url |-> urlOf_p0(urlObj)]
        post == IF "Param" \in DOMAIN urlObj /\ "method" \in DOMAIN urlObj
                   /\ urlObj.method = "POST"
                THEN [post_params |-> join(pairs(urlObj.Param), "&")]
                ELSE EmptyObj
        moz  == IF "MozParam" \in DOMAIN urlObj /\ Len(urlObj.MozParam) > 0
                THEN [params |-> [j \in 1..Len(urlObj.MozParam) |->
                                    (urlObj.MozParam[j].name :> urlObj.MozParam[j].value)]]
                ELSE EmptyObj
    IN  moz @@ post @@ base

\* the index in Url of the first endpoint that is not (is) of the suggestion
\* type; 0 when Array.prototype.find yields undefined
findSearch(Url) ==
    IF \E j \in 1..Len(Url) : Url[j].type # SUGGEST_TYPE
    THEN CHOOSE j \in 1..Len(Url) :
           Url[j].type # SUGGEST_TYPE /\ \A h \in 1..(j - 1) : Url[h].type = SUGGEST_TYPE
    ELSE 0

findSuggest(Url) ==
    IF \E j \in 1..Len(Url) : Url[j].type = SUGGEST_TYPE
    THEN CHOOSE j \in 1..Len(Url) :
           Url[j].type = SUGGEST_TYPE /\ \A h \in 1..(j - 1) : Url[h].type # SUGGEST_TYPE
    ELSE 0

\* getSearchUrl throws a TypeError when the descriptor has no Url element or
\* no endpoint that is not of the suggestion type (parseUrlObj(undefined))
getSearchUrlThrows(searchPlugin) ==
    \/ "Url" \notin DOMAIN searchPlugin
    \/ findSearch(searchPlugin.Url) = 0

getSearchUrl_p0(searchPlugin) ==
    parseUrlObj_p0(searchPlugin.Url[findSearch(searchPlugin.Url)])

\* getSuggestUrl yields false when there is no suggestion endpoint
hasSuggestUrl(searchPlugin) == findSuggest(searchPlugin.Url) # 0

getSuggestUrl_p0(searchPlugin) ==
    parseUrlObj_p0(searchPlugin.Url[findSuggest(searchPlugin.Url)])

\* dataUriToBuffer(uri).type: the media type of a data: uri
dataUriType(uri) ==
    LET semi  == indexOf(uri, ";")
        comma == indexOf(uri, ",")
        stop  == IF semi # -1 /\ (comma = -1 \/ semi < comma) THEN semi ELSE comma
    IN  slice(uri, Len("data:"), IF stop = -1 THEN Len(uri) ELSE stop)

\* the lookup yields undefined for an unlisted type, which string
\* concatenation renders as "undefined"
typeToExtension_p0(type) ==
    IF type = "image/x-icon" THEN "ico"
    ELSE IF type = "image/png" THEN "png"
    ELSE "undefined"

\* the locale of a descriptor file, from its path
localeOf_p0(file) ==
    LET exceptions == test("google-2018", file) \/ test("bbc-alba", file)
                      \/ test("yahoo-jp-auctions", file)
        index  == IF exceptions THEN -1 ELSE indexOf(file, "-")
        locale == IF index # -1 THEN slice(file, index + 1, -4) ELSE "en"
    IN  IF test("amazondotcn", file) THEN "cn"
        ELSE IF test("yahoo-jp-auctions", file) THEN "jp"
        ELSE locale

(***************************************************************************)
(* Endpoint resolution, search form, icon helper and locale resolution of  *)
(* index.js.                                                               *)
(***************************************************************************)
normaliseLocale(file) ==
    LET filename == splitPop(file, "/")
    IN  IF indexOf(filename, "-") = -1 THEN "en"
        ELSE slice(filename, indexOf(filename, "-") + 1, -4)

RECURSIVE paramPairs(_)
paramPairs(obj) ==
    IF Len(obj) = 0 THEN <<>>
    ELSE <<obj[1].name \o "=" \o obj[1].value>> \o paramPairs(Tail(obj))

paramsToStr(obj) == join(paramPairs(obj), "&")

isPost(urlObj) == "method" \in DOMAIN urlObj /\ urlObj.method = "POST"

parseUrlObj(urlObj) ==
    LET params == IF "Param" \in DOMAIN urlObj /\ ~isPost(urlObj)
                  THEN urlObj.Param ELSE <<>>
        post == IF "Param" \in DOMAIN urlObj /\ isPost(urlObj)
                THEN [post_params |-> join(paramPairs(urlObj.Param), "&")]
                ELSE EmptyObj
        mozParams == IF "MozParam" \in DOMAIN urlObj THEN urlObj.MozParam ELSE <<>>
    IN  [mozParams |-> mozParams]
        @@ (IF Len(params) > 0 THEN [params |-> params] ELSE EmptyObj)
        @@ post
        @@ [url |-> urlObj.template]

getSearchUrl(searchPlugin) ==
    parseUrlObj(searchPlugin.Url[findSearch(searchPlugin.Url)])

getSuggestUrl(searchPlugin) ==
    parseUrlObj(searchPlugin.Url[findSuggest(searchPlugin.Url)])

\* the index in Url of the first endpoint with rel == 'searchform', or 0
findSearchForm(Url) ==
    IF \E j \in 1..Len(Url) : "rel" \in DOMAIN Url[j] /\ Url[j].rel = "searchform"
    THEN CHOOSE j \in 1..Len(Url) :
           /\ "rel" \in DOMAIN Url[j] /\ Url[j].rel = "searchform"
           /\ \A h \in 1..(j - 1) : ~("rel" \in DOMAIN Url[h] /\ Url[h].rel = "searchform")
    ELSE 0

\* getSearchForm yields false when the descriptor has neither a SearchForm
\* element nor an endpoint with rel == 'searchform'
hasSearchForm(searchPlugin) ==
    \/ "SearchForm" \in DOMAIN searchPlugin
    \/ findSearchForm(searchPlugin.Url) # 0

getSearchForm(searchPlugin) ==
    IF "SearchForm" \in DOMAIN searchPlugin THEN searchPlugin.SearchForm[1]
    ELSE LET url == parseUrlObj(searchPlugin.Url[findSearchForm(searchPlugin.Url)])
         IN  IF "params" \in DOMAIN url
             THEN LET prepend == IF indexOf(url.url, "?") = -1 THEN "?" ELSE ""
                  IN  url.url \o prepend \o paramsToStr(url.params)
             ELSE url.url

\* {'message': getSearchForm(searchPlugin)}; the message is the boolean
\* false when there is no search form
searchFormMessage(searchPlugin) ==
    IF hasSearchForm(searchPlugin) THEN [message |-> getSearchForm(searchPlugin)]
    ELSE [message |-> "false", boolean |-> TRUE]

ExtensionTable == {"image/ico", "image/icon", "image/x-ico", "image/x-icon",
                   "image/png", "image/gif"}

\* typeToExtension throws for a type that is not in its table
typeToExtensionThrows(type) == type \notin ExtensionTable

typeToExtension(type) ==
    IF type = "image/png" THEN "png"
    ELSE IF type = "image/gif" THEN "gif"
    ELSE "ico"

(***************************************************************************)
(* State.                                                                  *)
(***************************************************************************)
VARIABLES
    prog,       \* which program runs: "run", "part000" or "index"
    geckoPath,  \* --gecko-path
    argEngine,  \* --engine, "" when the option is not given
    dir,        \* the names of the files of the searchplugins folder, in glob order
    stale,      \* the staging directories found to exist before the run
    disk,       \* the content of each descriptor file read so far
    pc,         \* "main", "loop", "files", "single", "done" or "crashed"
    engines,    \* the engine list of the run
    i,          \* the number of engines whose processing has been started
    frame,      \* the locals of the running parseEngine
    staging,    \* the tree under tmp/: directory -> (relative path -> content)
    dist,       \* whether dist/ was made, and the archives written
    log,        \* the console output
    results,    \* how the processing of each started engine ended
    templates   \* the module-level objects MANIFEST, SEARCH_PROVIDER and CONFIG

vars == <<prog, geckoPath, argEngine, dir, stale, disk, pc, engines, i, frame,
          staging, dist, log, results, templates>>

Programs == {"run", "part000", "index"}

\* the values of --engine
ArgEngines == {"", "bar"}

\* the content of a left-over staging directory
StaleTree == [x \in {"manifest.json"} |-> [stale |-> TRUE]]

\* the folder holds a run of consecutive files of AllNames
Folders ==
    {SubSeq(AllNames, w[1], w[2]) :
        w \in {v \in (1..Len(AllNames)) \X (0..Len(AllNames)) :
                 v[2] - v[1] + 1 \in 0..MaxDir}}

MANIFEST_run ==
    [name |-> "__MSG_extensionName__",
     description |-> "__MSG_extensionDescription__",
     manifest_version |-> 2,
     version |-> "1.0",
     applications |-> [gecko |-> EmptyObj]]

SEARCH_PROVIDER_run == [name |-> "__MSG_extensionName__"]

CONFIG_run ==
    [wikipedia |->
       [path |-> "browser/components/search/searchplugins/wikipedia*",
        manifest |-> [applications |-> [gecko |-> [id |-> "wikipedia@mozilla.org"]]],
        search_provider |->
          [keyword |-> "wp",
           favicon_url |-> "https://__MSG_url_lang__.wikipedia.org/static/favicon/wikipedia.ico",
           search_url |-> "https://__MSG_url_lang__.wikipedia.org/wiki/__MSG_url_landing__?sourceid=Mozilla-search&search={searchTerms}&lang={language}&oe={outputEncoding}&ml={moz:locale}&mdi={moz:distributionID}&mo={moz:official}",
           suggest_url |-> "https://__MSG_url_lang__.wikipedia.org/w/api.php?action=opensearch&search={searchTerms}"],
        messages |-> [url_landing |-> [message |-> "Special:Search"]]]]

\* the module-level objects of a program as its source text defines them
baseOf(program) ==
    IF program = "run"
    THEN [MANIFEST |-> MANIFEST_run, SEARCH_PROVIDER |-> SEARCH_PROVIDER_run,
          CONFIG |-> CONFIG_run]
    ELSE IF program = "part000"
    THEN [MANIFEST |-> MANIFEST_p0, SEARCH_PROVIDER |-> SEARCH_PROVIDER_p0,
          CONFIG |-> CONFIG_p0]
    ELSE [MANIFEST |-> MANIFEST, SEARCH_PROVIDER |-> SEARCH_PROVIDER, CONFIG |-> CONFIG]

NoFrame == [engine |-> "", tmpDir |-> "", files |-> <<>>, k |-> 0,
            locales |-> <<>>, hasSuggest |-> FALSE]

Init ==
    /\ prog \in Programs
    /\ geckoPath \in GeckoPaths
    /\ argEngine \in ArgEngines
    /\ dir \in Folders
    /\ stale = {}
    /\ disk = EmptyObj
    /\ pc = "main"
    /\ engines = <<>>
    /\ i = 0
    /\ frame = NoFrame
    /\ staging = EmptyObj
    /\ dist = [made |-> FALSE, xpi |-> {}]
    /\ log = <<>>
    /\ results = <<>>
    /\ templates = baseOf(prog)

(***************************************************************************)
(* The collaborators: file discovery, file reads, writes under tmp/.       *)
(***************************************************************************)
\* glob(prefix + engine + '*.xml'): the paths of the matching files
glob(prefix, engine) ==
    LET hit == SelectSeq(dir, LAMBDA n : startsWith(n, engine) /\ endsWith(n, ".xml")
                                         /\ Len(n) >= Len(engine) + Len(".xml"))
    IN  [j \in 1..Len(hit) |-> prefix \o hit[j]]

\* whether a path names a file of the folder
onDisk(file) == \E j \in 1..Len(dir) : splitPop(file, "/") = dir[j]

\* the contents a read of the file may yield: what was read before, or any
\* descriptor on the first read
contentsOf(file) == IF file \in DOMAIN disk THEN {disk[file]} ELSE Descriptors

\* what the first look at tmpDir may find: a directory that this run has not
\* made may be left over from an earlier run
leftOver(tmpDir) ==
    IF tmpDir \notin DOMAIN staging /\ Cardinality(stale) < MaxStale
    THEN BOOLEAN ELSE {FALSE}

\* the tree under tmp/ once tmpDir has been looked at
lookAt(tmpDir, found) ==
    IF found THEN (tmpDir :> StaleTree) @@ staging ELSE staging

\* mkdirp(tmpDir)
mkdirp(tree, tmpDir) ==
    IF tmpDir \in DOMAIN tree THEN tree ELSE (tmpDir :> EmptyObj) @@ tree

\* a write of tmpDir + rel
writeFile(tree, tmpDir, rel, content) ==
    [tree EXCEPT ![tmpDir] = (rel :> content) @@ @]

Directory == [directory |-> TRUE]

RECURSIVE dedupe(_, _)
\* [...new Set(list)]: first occurrences, in order
dedupe(list, seen) ==
    IF Len(list) = 0 THEN <<>>
    ELSE IF Head(list) \in seen THEN dedupe(Tail(list), seen)
    ELSE <<Head(list)>> \o dedupe(Tail(list), seen \cup {Head(list)})

\* obj[key] = value
set(obj, key, value) == (key :> value) @@ obj

\* how an image uri is dispatched
iconKind(imageUri) ==
    IF startsWith(imageUri, "http") THEN "http"
    ELSE IF startsWith(imageUri, "data") THEN "data"
    ELSE IF startsWith(imageUri, "resource") THEN "resource"
    ELSE "other"

\* the record of an engine whose processing ended
ended(outcome, engine, tmpDir, files, locales) ==
    [engine |-> engine, tmpDir |-> tmpDir, files |-> files, locales |-> locales,
     outcome |-> outcome]

(***************************************************************************)
(* part_000: the entry point, allEngines and parseEngine.                  *)
(***************************************************************************)
\* the module's last statement, with --engine: parseEngine(program.engine, ...)
\* is the only call
main_p0 ==
    /\ prog = "part000" /\ pc = "main" /\ argEngine # ""
    /\ engines' = <<argEngine>>
    /\ pc' = "loop"
    /\ UNCHANGED <<prog, templates, geckoPath, argEngine, dir, stale, disk, i, frame, staging,
                   dist, log, results>>

\* allEngines up to its loop: the engine list
engineNames_p0 ==
    dedupe([j \in 1..Len(dir) |->
              replace(splitFirst(splitPop(geckoPath \o SEARCHPLUGINS_FOLDER_p0 \o dir[j], "/"),
                                 "-"), ".xml", "")], {})
    \o <<"google-2018", "yahoo-jp-auctions">>

allEngines_p0 ==
    /\ prog = "part000" /\ pc = "main" /\ argEngine = ""
    /\ engines' = engineNames_p0
    /\ pc' = "loop"
    /\ UNCHANGED <<prog, templates, geckoPath, argEngine, dir, stale, disk, i, frame, staging,
                   dist, log, results>>

\* parseEngine from its call to the start of its loop over the files
parseEngine_p0 ==
    /\ prog = "part000" /\ pc = "loop" /\ i < Len(engines)
    /\ i' = i + 1
    /\ LET engine == engines[i + 1]
           tmpDir == "tmp/" \o engine \o "/"
           openSearchFiles == glob(geckoPath \o SEARCHPLUGINS_FOLDER_p0, engine)
       IN  \E found \in leftOver(tmpDir) :
           /\ stale' = IF found THEN stale \cup {tmpDir} ELSE stale
           /\ IF tmpDir \in DOMAIN lookAt(tmpDir, found)
              THEN /\ log' = Append(log, [level |-> "error",
                                          text |-> "Destination file already exists",
                                          arg |-> tmpDir])
                   /\ results' = Append(results, ended("exists", engine, tmpDir, <<>>, <<>>))
                   /\ staging' = lookAt(tmpDir, found)
                   /\ UNCHANGED <<pc, frame, dist>>
              ELSE IF Len(openSearchFiles) = 0
              THEN /\ dist' = [dist EXCEPT !.made = TRUE]
                   /\ log' = Append(log, [level |-> "error",
                                          text |-> "No files to convert found",
                                          arg |-> engine])
                   /\ results' = Append(results, ended("nofiles", engine, tmpDir, <<>>, <<>>))
                   /\ UNCHANGED <<pc, frame, staging>>
              ELSE /\ dist' = [dist EXCEPT !.made = TRUE]
                   /\ log' = Append(log, [level |-> "log", text |-> "Processing",
                                          arg |-> engine])
                   /\ staging' = writeFile(mkdirp(staging, tmpDir), tmpDir, "_locales/",
                                           Directory)
                   /\ frame' = [engine |-> engine, tmpDir |-> tmpDir,
                                files |-> openSearchFiles, k |-> 0, locales |-> <<>>,
                                hasSuggest |-> FALSE]
                   /\ pc' = "files"
                   /\ UNCHANGED results
    /\ UNCHANGED <<prog, templates, geckoPath, argEngine, dir, disk, engines>>

\* the statements of the loop body that throw a TypeError: match.index of a
\* text without root-element marker, [0] of a missing ShortName or
\* Description, parseUrlObj(undefined)
fileThrows_p0(doc) ==
    \/ ~doc.marker
    \/ "ShortName" \notin DOMAIN doc.plugin
    \/ "Description" \notin DOMAIN doc.plugin
    \/ getSearchUrlThrows(doc.plugin)

\* the message catalog of a file
messages_p0(conf, searchPlugin, locale) ==
    LET base == assign([extensionName |-> [message |-> searchPlugin.ShortName[1]],
                        extensionDescription |-> [message |-> searchPlugin.Description[1]],
                        url_lang |-> [message |-> locale],
                        searchUrl |-> [message |-> getSearchUrl_p0(searchPlugin).url]],
                       section(conf, "messages"))
    IN  IF hasSuggestUrl(searchPlugin)
        THEN set(base, "suggestUrl", [message |-> getSuggestUrl_p0(searchPlugin).url])
        ELSE base

\* one iteration of parseEngine's loop over the files
processFile_p0 ==
    /\ prog = "part000" /\ pc = "files" /\ frame.k < Len(frame.files)
    /\ LET file == frame.files[frame.k + 1]
           locale == localeOf_p0(file)
           locales == Append(frame.locales, locale)
           localeDir == "_locales/" \o locale \o "/"
           conf == confOf(CONFIG_p0, frame.engine)
       IN  \E doc \in contentsOf(file) :
             /\ disk' = (file :> doc) @@ disk
             /\ IF fileThrows_p0(doc)
                THEN /\ pc' = "crashed"
                     /\ frame' = NoFrame
                     /\ results' = Append(results, ended("threw", frame.engine,
                                                         frame.tmpDir, frame.files, locales))
                     /\ UNCHANGED staging
                ELSE /\ staging' = writeFile(
                                     writeFile(staging, frame.tmpDir, localeDir, Directory),
                                     frame.tmpDir, localeDir \o "messages.json",
                                     messages_p0(conf, doc.plugin, locale))
                     /\ frame' = [frame EXCEPT !.k = @ + 1, !.locales = locales,
                                               !.hasSuggest = @ \/ hasSuggestUrl(doc.plugin)]
                     /\ UNCHANGED <<pc, results>>
    /\ UNCHANGED <<prog, templates, geckoPath, argEngine, dir, stale, engines, i, dist, log>>

\* manifestOf_p0 with the default locale always "en"
manifestOf_p0_alwaysEn(engine, locales) ==
    LET conf == confOf(CONFIG_p0, engine)
        m0 == assign(copy(MANIFEST_p0), section(conf, "manifest"))
        m1 == IF "id" \in DOMAIN m0.applications.gecko THEN m0
              ELSE set(m0, "applications",
                       set(m0.applications, "gecko",
                           set(m0.applications.gecko, "id", engine \o "@mozilla.org")))
    IN  IF "default_locale" \in DOMAIN m1 THEN m1
        ELSE set(m1, "default_locale", "en")

\* the manifest before the icon step
manifestOf_p0(engine, locales) ==
    LET conf == confOf(CONFIG_p0, engine)
        m0 == assign(copy(MANIFEST_p0), section(conf, "manifest"))
        m1 == IF "id" \in DOMAIN m0.applications.gecko THEN m0
              ELSE set(m0, "applications",
                       set(m0.applications, "gecko",
                           set(m0.applications.gecko, "id", engine \o "@mozilla.org")))
    IN  IF "default_locale" \in DOMAIN m1 THEN m1
        ELSE set(m1, "default_locale",
                 IF includes(locales, "en") THEN "en" ELSE locales[1])

\* the search provider before the icon step
searchProviderOf_p0(engine, hasSuggest) ==
    LET conf == confOf(CONFIG_p0, engine)
        sp0 == assign(copy(SEARCH_PROVIDER_p0), section(conf, "search_provider"))
    IN  IF hasSuggest THEN set(sp0, "suggest_url", "__MSG_suggestUrl__") ELSE sp0

\* parseEngine after its loop: the manifest, the icon, the archive
compose_p0 ==
    /\ prog = "part000" /\ pc = "files" /\ frame.k = Len(frame.files)
    /\ \E resourceExists \in BOOLEAN :
       LET engine == frame.engine
           tmpDir == frame.tmpDir
           searchPlugin == disk[frame.files[1]].plugin
           manifest == manifestOf_p0(engine, frame.locales)
           searchProvider == searchProviderOf_p0(engine, frame.hasSuggest)
           icon == "icons" \notin DOMAIN manifest
           imageUri == trim(searchPlugin.Image[1].text)
           kind == iconKind(imageUri)
           extension == typeToExtension_p0(dataUriType(imageUri))
           favicon == IF kind = "data" THEN "favicon." \o extension
                      ELSE "favicon" \o substrLast(imageUri, 4)
           throws == /\ icon
                     /\ \/ "Image" \notin DOMAIN searchPlugin
                        \/ kind = "resource" /\ ~resourceExists
           manifest2 == IF icon /\ kind \in {"data", "resource"}
                        THEN set(manifest, "icons", [x \in {"16"} |-> favicon])
                        ELSE manifest
           searchProvider2 == IF icon /\ kind = "http"
                              THEN set(searchProvider, "favicon_url", imageUri)
                              ELSE searchProvider
           tree1 == IF icon /\ kind = "data"
                    THEN writeFile(staging, tmpDir, favicon, [buffer |-> imageUri])
                    ELSE IF icon /\ kind = "resource"
                    THEN writeFile(staging, tmpDir, favicon,
                                   [copyOf |-> geckoPath \o ICON_RESOURCES_p0
                                               \o splitPop(imageUri, "/")])
                    ELSE staging
           xpiPath == "dist/" \o engine \o ".xpi"
       IN  IF throws
           THEN /\ pc' = "crashed"
                /\ results' = Append(results, ended("threw", engine, tmpDir,
                                                    frame.files, frame.locales))
                /\ UNCHANGED <<staging, dist, log>>
           ELSE /\ staging' = writeFile(tree1, tmpDir, "manifest.json",
                                  set(manifest2, "chrome_settings_overrides",
                                      [search_provider |-> searchProvider2]))
                /\ dist' = [dist EXCEPT !.xpi = @ \cup {xpiPath}]
                /\ log' = (IF icon /\ kind = "other"
                           THEN Append(log, [level |-> "warn",
                                             text |-> "Unsupported image type",
                                             arg |-> imageUri])
                           ELSE log)
                          \o <<[level |-> "log", text |-> "Complete! written",
                                arg |-> xpiPath]>>
                /\ results' = Append(results, ended("complete", engine, tmpDir,
                                                    frame.files, frame.locales))
                /\ pc' = "loop"
    /\ frame' = NoFrame
    /\ UNCHANGED <<prog, templates, geckoPath, argEngine, dir, stale, disk, engines, i>>

(***************************************************************************)
(* index.js: the entry point, allEngines, parseEngine and                  *)
(* singleLocaleExtension.                                                  *)
(***************************************************************************)
main ==
    /\ prog = "index" /\ pc = "main" /\ argEngine # ""
    /\ engines' = <<argEngine>>
    /\ pc' = "loop"
    /\ UNCHANGED <<prog, templates, geckoPath, argEngine, dir, stale, disk, i, frame, staging,
                   dist, log, results>>

engineNames ==
    dedupe([j \in 1..Len(dir) |->
              LET file == geckoPath \o SEARCHPLUGINS_FOLDER \o dir[j]
              IN  IF MULTILOCALE
                  THEN replace(splitFirst(splitPop(file, "/"), "-"), ".xml", "")
                  ELSE replace(splitPop(file, "/"), ".xml", "")], {})
    \o <<"yahoo-jp", "yahoo-jp-auctions">>

allEngines ==
    /\ prog = "index" /\ pc = "main" /\ argEngine = ""
    /\ engines' = engineNames
    /\ pc' = "loop"
    /\ UNCHANGED <<prog, templates, geckoPath, argEngine, dir, stale, disk, i, frame, staging,
                   dist, log, results>>

\* the files parseEngine works on
openSearchFilesOf(engine) ==
    LET found == glob(geckoPath \o SEARCHPLUGINS_FOLDER, engine)
    IN  IF engine = "yahoo-jp"
        THEN <<geckoPath \o SEARCHPLUGINS_FOLDER \o "yahoo-jp.xml">>
        ELSE IF engine = "amazon"
        THEN SelectSeq(found, LAMBDA file : ~test("amazondotcom", file)
                                            /\ ~test("amazondotcn", file))
        ELSE found

\* parseEngine from its call to the start of its loop over the files, or to
\* its call of singleLocaleExtension
parseEngine ==
    /\ prog = "index" /\ pc = "loop" /\ i < Len(engines)
    /\ i' = i + 1
    /\ LET engine == engines[i + 1]
           openSearchFiles == openSearchFilesOf(engine)
           tmpDir == "tmp/" \o engine \o "/"
       IN  IF engine = "yahoo"
           THEN /\ results' = Append(results, ended("skipped", engine, tmpDir, <<>>, <<>>))
                /\ UNCHANGED <<stale, disk, pc, frame, staging, log>>
           ELSE IF Len(openSearchFiles) = 0
           THEN /\ log' = Append(log, [level |-> "error",
                                       text |-> "No files to convert found",
                                       arg |-> engine])
                /\ results' = Append(results, ended("nofiles", engine, tmpDir, <<>>, <<>>))
                /\ UNCHANGED <<stale, disk, pc, frame, staging>>
           ELSE IF Len(openSearchFiles) = 1
           THEN /\ frame' = [NoFrame EXCEPT !.engine = engine, !.files = openSearchFiles]
                /\ pc' = "single"
                /\ UNCHANGED <<stale, disk, staging, log, results>>
           ELSE \E found \in leftOver(tmpDir) :
                /\ stale' = IF found THEN stale \cup {tmpDir} ELSE stale
                /\ IF tmpDir \in DOMAIN lookAt(tmpDir, found)
                   THEN /\ log' = log \o
                              <<[level |-> "log", text |-> "Processing", arg |-> engine],
                                [level |-> "error",
                                 text |-> "Destination file already exists",
                                 arg |-> tmpDir]>>
                        /\ results' = Append(results,
                                             ended("exists", engine, tmpDir, <<>>, <<>>))
                        /\ staging' = lookAt(tmpDir, found)
                        /\ UNCHANGED <<disk, pc, frame>>
                   ELSE \E doc \in contentsOf(openSearchFiles[1]) :
                        /\ log' = Append(log, [level |-> "log", text |-> "Processing",
                                               arg |-> engine])
                        /\ staging' = mkdirp(staging, tmpDir)
                        /\ disk' = (openSearchFiles[1] :> doc) @@ disk
                        /\ IF ~doc.marker
                           THEN /\ pc' = "crashed"
                                /\ results' = Append(results,
                                                ended("threw", engine, tmpDir,
                                                      openSearchFiles, <<>>))
                                /\ UNCHANGED frame
                           ELSE /\ frame' = [engine |-> engine, tmpDir |-> tmpDir,
                                             files |-> openSearchFiles, k |-> 0,
                                             locales |-> <<>>, hasSuggest |-> FALSE]
                                /\ pc' = "files"
                                /\ UNCHANGED results
    /\ UNCHANGED <<prog, templates, geckoPath, argEngine, dir, engines, dist>>

\* the statements of the loop body that throw: match.index of a text without
\* root-element marker, parseUrlObj(undefined), [0] of a missing ShortName or
\* Description, the throw for POST parameters, Image[0] of a missing Image
fileThrows(engine, doc) ==
    \/ ~doc.marker
    \/ getSearchUrlThrows(doc.plugin)
    \/ "ShortName" \notin DOMAIN doc.plugin
    \/ "Description" \notin DOMAIN doc.plugin
    \/ "post_params" \in DOMAIN getSearchUrl(doc.plugin)
    \/ engine = "yandex" /\ "Image" \notin DOMAIN doc.plugin

RECURSIVE purposeMessages(_)
\* messages['param_' + param.purpose] of the vendor parameters with a purpose
purposeMessages(mozParams) ==
    IF Len(mozParams) = 0 THEN EmptyObj
    ELSE LET param == mozParams[Len(mozParams)]
             rest == purposeMessages(SubSeq(mozParams, 1, Len(mozParams) - 1))
         IN  IF "purpose" \in DOMAIN param
             THEN set(rest, "param_" \o param.purpose, [message |-> param.value])
             ELSE rest

\* messages.suggestUrl.message
suggestMessage(searchPlugin) ==
    LET suggestUrl == getSuggestUrl(searchPlugin)
    IN  IF "params" \in DOMAIN suggestUrl
        THEN LET prepend == IF indexOf(suggestUrl.url, "?") = -1 THEN "?" ELSE ""
             IN  suggestUrl.url \o prepend \o paramsToStr(suggestUrl.params)
        ELSE suggestUrl.url

\* the message catalog of a file
messagesOf(engine, conf, searchPlugin) ==
    LET searchUrl == getSearchUrl(searchPlugin)
        m0 == assign([extensionName |-> [message |-> searchPlugin.ShortName[1]],
                      extensionDescription |-> [message |-> searchPlugin.Description[1]],
                      searchUrl |-> [message |-> searchUrl.url],
                      searchForm |-> searchFormMessage(searchPlugin)],
                     section(conf, "messages"))
        m1 == IF hasSuggestUrl(searchPlugin)
              THEN set(m0, "suggestUrl", [message |-> suggestMessage(searchPlugin)])
              ELSE m0
        m2 == IF "params" \in DOMAIN searchUrl
              THEN set(m1, "searchUrlGetParams",
                       [message |-> paramsToStr(searchUrl.params)])
              ELSE m1
        m3 == assign(m2, purposeMessages(searchUrl.mozParams))
    IN  IF engine = "yandex"
        THEN set(m3, "extensionIcon", [message |-> searchPlugin.Image[1].text])
        ELSE m3

\* one iteration of parseEngine's loop over the files
processFile ==
    /\ prog = "index" /\ pc = "files" /\ frame.k < Len(frame.files)
    /\ LET file == frame.files[frame.k + 1]
           locale == normaliseLocale(file)
           locales == Append(frame.locales, locale)
           localeDir == "_locales/" \o locale \o "/"
           conf == confOf(CONFIG, frame.engine)
       IN  \E doc \in contentsOf(file) :
             /\ disk' = (file :> doc) @@ disk
             /\ IF fileThrows(frame.engine, doc)
                THEN /\ pc' = "crashed"
                     /\ frame' = NoFrame
                     /\ results' = Append(results, ended("threw", frame.engine,
                                                         frame.tmpDir, frame.files, locales))
                     /\ UNCHANGED staging
                ELSE /\ staging' = writeFile(
                                     writeFile(staging, frame.tmpDir, localeDir, Directory),
                                     frame.tmpDir, localeDir \o "messages.json",
                                     messagesOf(frame.engine, conf, doc.plugin))
                     /\ frame' = [frame EXCEPT !.k = @ + 1, !.locales = locales,
                                               !.hasSuggest = @ \/ hasSuggestUrl(doc.plugin)]
                     /\ UNCHANGED <<pc, results>>
    /\ UNCHANGED <<prog, templates, geckoPath, argEngine, dir, stale, engines, i, dist, log>>

\* searchUrl.mozParams.map(param => { param.value = "__MSG_param_" + param.purpose; ... })
placeholders(mozParams) ==
    [j \in 1..Len(mozParams) |->
        set(mozParams[j], "value",
            "__MSG_param_" \o (IF "purpose" \in DOMAIN mozParams[j]
                               THEN mozParams[j].purpose ELSE "undefined"))]

\* the search provider of a multi-locale bundle before the icon step
searchProviderOf(engine, hasSuggest, searchPlugin) ==
    LET conf == confOf(CONFIG, engine)
        searchUrl == getSearchUrl(searchPlugin)
        sp0 == assign(copy(SEARCH_PROVIDER), section(conf, "search_provider"))
        sp1 == set(sp0, "search_form", "__MSG_searchForm__")
        sp2 == IF hasSuggest THEN set(sp1, "suggest_url", "__MSG_suggestUrl__") ELSE sp1
        sp3 == IF Len(searchUrl.mozParams) > 0
               THEN set(sp2, "params", placeholders(searchUrl.mozParams)) ELSE sp2
    IN  IF "params" \in DOMAIN searchUrl
        THEN set(sp3, "search_url_get_params", "__MSG_searchUrlGetParams__")
        ELSE sp3

\* manifest.applications.gecko.id = id, unless an id is set
withId(manifest, id) ==
    IF "id" \in DOMAIN manifest.applications.gecko THEN manifest
    ELSE set(manifest, "applications",
             set(manifest.applications, "gecko",
                 set(manifest.applications.gecko, "id", id)))

\* manifestOf with the default locale always the first of the locales
manifestOf_firstLocale(engine, locales) ==
    LET conf == confOf(CONFIG, engine)
        m0 == assign(copy(MANIFEST), section(conf, "manifest"))
        m1 == withId(set(m0, "hidden", TRUE), engine \o "@search.mozilla.org")
        m2 == IF "default_locale" \in DOMAIN m1 THEN m1
              ELSE set(m1, "default_locale", locales[1])
    IN  IF engine = "yandex"
        THEN set(set(m2, "icons", [x \in {"16"} |-> "__MSG_extensionIcon__"]),
                 "web_accessible_resources", <<"yandex-en.ico", "yandex-ru.ico">>)
        ELSE m2

\* the manifest of a multi-locale bundle before the icon step
manifestOf(engine, locales) ==
    LET conf == confOf(CONFIG, engine)
        m0 == assign(copy(MANIFEST), section(conf, "manifest"))
        m1 == withId(set(m0, "hidden", TRUE), engine \o "@search.mozilla.org")
        m2 == IF "default_locale" \in DOMAIN m1 THEN m1
              ELSE set(m1, "default_locale",
                       IF includes(locales, "en") THEN "en" ELSE locales[1])
    IN  IF engine = "yandex"
        THEN set(set(m2, "icons", [x \in {"16"} |-> "__MSG_extensionIcon__"]),
                 "web_accessible_resources", <<"yandex-en.ico", "yandex-ru.ico">>)
        ELSE m2

\* the icon step, shared by parseEngine and singleLocaleExtension: whether it
\* runs, what it throws, and what it leaves in the manifest, the search
\* provider, the staging tree and the console
iconRuns(manifest, searchPlugin) ==
    "icons" \notin DOMAIN manifest /\ "Image" \in DOMAIN searchPlugin

iconUri(searchPlugin) == trim(searchPlugin.Image[1].text)

iconThrows(manifest, searchPlugin, resourceExists) ==
    /\ iconRuns(manifest, searchPlugin)
    /\ \/ /\ iconKind(iconUri(searchPlugin)) = "data"
          /\ typeToExtensionThrows(dataUriType(iconUri(searchPlugin)))
       \/ iconKind(iconUri(searchPlugin)) = "resource" /\ ~resourceExists

iconFile(searchPlugin) ==
    IF iconKind(iconUri(searchPlugin)) = "data"
    THEN "favicon." \o typeToExtension(dataUriType(iconUri(searchPlugin)))
    ELSE "favicon" \o substrLast(iconUri(searchPlugin), 4)

iconManifest(manifest, searchPlugin) ==
    IF iconRuns(manifest, searchPlugin)
       /\ iconKind(iconUri(searchPlugin)) \in {"data", "resource"}
    THEN set(manifest, "icons", [x \in {"16"} |-> iconFile(searchPlugin)])
    ELSE manifest

iconProvider(manifest, searchProvider, searchPlugin) ==
    IF iconRuns(manifest, searchPlugin) /\ iconKind(iconUri(searchPlugin)) = "http"
    THEN set(searchProvider, "favicon_url", iconUri(searchPlugin))
    ELSE searchProvider

iconTree(tree, tmpDir, manifest, searchPlugin) ==
    IF iconRuns(manifest, searchPlugin) /\ iconKind(iconUri(searchPlugin)) = "data"
    THEN writeFile(tree, tmpDir, iconFile(searchPlugin),
                   [buffer |-> iconUri(searchPlugin)])
    ELSE IF iconRuns(manifest, searchPlugin)
            /\ iconKind(iconUri(searchPlugin)) = "resource"
    THEN writeFile(tree, tmpDir, iconFile(searchPlugin),
                   [copyOf |-> geckoPath \o ICON_RESOURCES
                               \o splitPop(iconUri(searchPlugin), "/")])
    ELSE tree

iconLog(manifest, searchPlugin) ==
    IF iconRuns(manifest, searchPlugin) /\ iconKind(iconUri(searchPlugin)) = "other"
    THEN <<[level |-> "warn", text |-> "Unsupported image type",
            arg |-> iconUri(searchPlugin)]>>
    ELSE <<>>

\* parseEngine after its loop: the search provider, the manifest, the icon
compose ==
    /\ prog = "index" /\ pc = "files" /\ frame.k = Len(frame.files)
    /\ \E resourceExists \in BOOLEAN :
       LET engine == frame.engine
           tmpDir == frame.tmpDir
           searchPlugin == disk[frame.files[1]].plugin
           searchProvider == searchProviderOf(engine, frame.hasSuggest, searchPlugin)
           manifest == manifestOf(engine, frame.locales)
           manifest2 == iconManifest(manifest, searchPlugin)
           throws == \/ iconThrows(manifest, searchPlugin, resourceExists)
                     \/ /\ "web_accessible_resources" \notin DOMAIN manifest2
                        /\ "icons" \notin DOMAIN manifest2
           manifest3 == IF "web_accessible_resources" \in DOMAIN manifest2 THEN manifest2
                        ELSE set(manifest2, "web_accessible_resources",
                                 <<manifest2.icons["16"]>>)
       IN  IF throws
           THEN /\ pc' = "crashed"
                /\ log' = IF iconThrows(manifest, searchPlugin, resourceExists) THEN log
                          ELSE log \o iconLog(manifest, searchPlugin)
                /\ results' = Append(results, ended("threw", engine, tmpDir,
                                                    frame.files, frame.locales))
                /\ UNCHANGED staging
           ELSE /\ staging' = writeFile(iconTree(staging, tmpDir, manifest, searchPlugin),
                                  tmpDir, "manifest.json",
                                  set(manifest3, "chrome_settings_overrides",
                                      [search_provider |->
                                         iconProvider(manifest, searchProvider,
                                                      searchPlugin)]))
                /\ log' = log \o iconLog(manifest, searchPlugin)
                              \o <<[level |-> "log", text |-> "Complete! written",
                                    arg |-> ""]>>
                /\ results' = Append(results, ended("complete", engine, tmpDir,
                                                    frame.files, frame.locales))
                /\ pc' = "loop"
    /\ frame' = NoFrame
    /\ UNCHANGED <<prog, templates, geckoPath, argEngine, dir, stale, disk, engines, i, dist>>

\* the statements of singleLocaleExtension that throw before the icon step:
\* the read of a file that does not exist, match.index, [0] of a missing
\* ShortName or Description, Url.find of a missing Url, parseUrlObj(undefined)
singleThrows(file, doc) ==
    \/ ~onDisk(file)
    \/ ~doc.marker
    \/ "ShortName" \notin DOMAIN doc.plugin
    \/ "SearchForm" \notin DOMAIN doc.plugin /\ "Url" \notin DOMAIN doc.plugin
    \/ getSearchUrlThrows(doc.plugin)
    \/ "Description" \notin DOMAIN doc.plugin

\* the search provider of a single-locale bundle before the icon step
singleProvider(conf, searchPlugin) ==
    LET searchUrl == getSearchUrl(searchPlugin)
        sp0 == assign(copy(SEARCH_PROVIDER), section(conf, "search_provider"))
        sp1 == set(sp0, "name", searchPlugin.ShortName[1])
        sp2 == IF hasSearchForm(searchPlugin)
               THEN set(sp1, "search_form", getSearchForm(searchPlugin)) ELSE sp1
        sp3 == set(sp2, "search_url", searchUrl.url)
        sp4 == IF "params" \in DOMAIN searchUrl
               THEN set(sp3, "search_url_get_params", paramsToStr(searchUrl.params))
               ELSE sp3
        sp5 == IF Len(searchUrl.mozParams) > 0
               THEN set(sp4, "params", searchUrl.mozParams) ELSE sp4
        sp6 == IF "post_params" \in DOMAIN searchUrl
               THEN set(sp5, "search_url_post_params", searchUrl.post_params) ELSE sp5
        suggestUrl == getSuggestUrl(searchPlugin)
        sp7 == IF hasSuggestUrl(searchPlugin)
               THEN set(sp6, "suggest_url", suggestUrl.url) ELSE sp6
    IN  IF hasSuggestUrl(searchPlugin) /\ "params" \in DOMAIN suggestUrl
        THEN set(sp7, "suggest_url_get_params", paramsToStr(suggestUrl.params))
        ELSE sp7

\* the manifest of a single-locale bundle before the icon step
singleManifest(engine, conf, searchPlugin) ==
    LET m0 == assign(copy(MANIFEST), section(conf, "manifest"))
        m1 == set(set(m0, "hidden", TRUE), "name", searchPlugin.ShortName[1])
        m2 == set(m1, "description", searchPlugin.Description[1])
    IN  withId(m2, engine \o "@search.mozilla.org")

\* singleLocaleExtension(engine, geckoPath, file), called by parseEngine for an
\* engine with exactly one file
singleLocaleExtension ==
    /\ prog = "index" /\ pc = "single"
    /\ LET file == frame.files[1]
           engine == replace(splitPop(file, "/"), ".xml", "")
           tmpDir == "tmp/" \o engine \o "/"
           conf == confOf(CONFIG, engine)
           begun == Append(log, [level |-> "log", text |-> "processing",
                                 arg |-> frame.engine])
       IN  \E found \in leftOver(tmpDir), resourceExists \in BOOLEAN,
              doc \in (IF onDisk(file) THEN contentsOf(file) ELSE {D_nomarker}) :
           /\ stale' = IF found THEN stale \cup {tmpDir} ELSE stale
           /\ disk' = IF onDisk(file) THEN (file :> doc) @@ disk ELSE disk
           /\ IF singleThrows(file, doc)
              THEN /\ staging' = mkdirp(lookAt(tmpDir, found), tmpDir)
                   /\ log' = begun
                   /\ results' = Append(results, ended("threw", frame.engine, tmpDir,
                                                       frame.files, <<>>))
                   /\ pc' = "crashed"
              ELSE LET searchPlugin == doc.plugin
                       manifest == singleManifest(engine, conf, searchPlugin)
                       manifest2 == iconManifest(manifest, searchPlugin)
                       searchProvider == singleProvider(conf, searchPlugin)
                       tree == mkdirp(lookAt(tmpDir, found), tmpDir)
                   IN  IF iconThrows(manifest, searchPlugin, resourceExists)
                       THEN /\ staging' = tree
                            /\ log' = begun
                            /\ results' = Append(results,
                                            ended("threw", frame.engine, tmpDir,
                                                  frame.files, <<>>))
                            /\ pc' = "crashed"
                       ELSE IF "icons" \notin DOMAIN manifest2
                       THEN /\ staging' = tree
                            /\ log' = begun \o iconLog(manifest, searchPlugin)
                            /\ results' = Append(results,
                                            ended("threw", frame.engine, tmpDir,
                                                  frame.files, <<>>))
                            /\ pc' = "crashed"
                       ELSE /\ staging' =
                                 writeFile(iconTree(tree, tmpDir, manifest, searchPlugin),
                                   tmpDir, "manifest.json",
                                   set(set(manifest2, "web_accessible_resources",
                                           <<manifest2.icons["16"]>>),
                                       "chrome_settings_overrides",
                                       [search_provider |->
                                          iconProvider(manifest, searchProvider,
                                                       searchPlugin)]))
                            /\ log' = begun \o iconLog(manifest, searchPlugin)
                                         \o <<[level |-> "log",
                                               text |-> "Complete! written",
                                               arg |-> manifest.name]>>
                            /\ results' = Append(results,
                                            ended("complete", frame.engine, tmpDir,
                                                  frame.files, <<>>))
                            /\ pc' = "loop"
    /\ frame' = NoFrame
    /\ UNCHANGED <<prog, templates, geckoPath, argEngine, dir, engines, i, dist>>

(***************************************************************************)
(* index.js, lines 1-192: the first program of the file, the function run, *)
(* which converts the one engine named by --engine into tmp/.              *)
(***************************************************************************)
SEARCHPLUGINS_FOLDER_run == "browser/components/search/searchplugins/"

paramsToStr_run(openSearchParams) ==
    IF Len(pairs(openSearchParams)) = 0 THEN ""
    ELSE "?" \o join(pairs(openSearchParams), "&")

\* program.engine: undefined, which concatenation renders as "undefined",
\* when --engine is not given
engine_run == IF argEngine = "" THEN "undefined" ELSE argEngine

\* pathToOpenSearchFiles
pattern_run == geckoPath \o SEARCHPLUGINS_FOLDER_run \o engine_run \o "*"

\* glob(pathToOpenSearchFiles)
glob_run ==
    LET hit == SelectSeq(dir, LAMBDA n : startsWith(n, engine_run))
    IN  [j \in 1..Len(hit) |-> geckoPath \o SEARCHPLUGINS_FOLDER_run \o hit[j]]

\* file.slice(pathToOpenSearchFiles.length, -4) || 'en'
localeOf_run(file) ==
    LET locale == slice(file, Len(pattern_run), -4)
    IN  IF locale = "" THEN "en" ELSE locale

\* run from its start to the start of its loop over the files
run ==
    /\ prog = "run" /\ pc = "main"
    /\ LET tmpDir == "tmp/"
           openSearchFiles == glob_run
       IN  \E found \in leftOver(tmpDir) :
           /\ stale' = IF found THEN stale \cup {tmpDir} ELSE stale
           /\ IF tmpDir \in DOMAIN lookAt(tmpDir, found)
              THEN /\ log' = Append(log, [level |-> "error",
                                          text |-> "Destination file already exists",
                                          arg |-> tmpDir])
                   /\ results' = Append(results,
                                        ended("exists", engine_run, tmpDir, <<>>, <<>>))
                   /\ staging' = lookAt(tmpDir, found)
                   /\ pc' = "done"
                   /\ UNCHANGED frame
              ELSE IF Len(openSearchFiles) = 0
              THEN /\ log' = Append(log, [level |-> "error",
                                          text |-> "No files to convert found",
                                          arg |-> engine_run])
                   /\ results' = Append(results,
                                        ended("nofiles", engine_run, tmpDir, <<>>, <<>>))
                   /\ pc' = "done"
                   /\ UNCHANGED <<frame, staging>>
              ELSE /\ log' = Append(log, [level |-> "log", text |-> "Found",
                                          arg |-> engine_run])
                   /\ staging' = writeFile(mkdirp(staging, tmpDir), tmpDir, "_locales/",
                                           Directory)
                   /\ frame' = [engine |-> engine_run, tmpDir |-> tmpDir,
                                files |-> openSearchFiles, k |-> 0, locales |-> <<>>,
                                hasSuggest |-> FALSE]
                   /\ pc' = "files"
                   /\ UNCHANGED results
    /\ engines' = <<engine_run>>
    /\ i' = 1
    \* Object.assign(MANIFEST, ...) and Object.assign(SEARCH_PROVIDER, ...) write
    \* the overrides into the module-level objects themselves
    /\ templates' = [templates EXCEPT
                   !.MANIFEST = assign(@, section(confOf(CONFIG_run, engine_run),
                                                  "manifest")),
                   !.SEARCH_PROVIDER = assign(@, section(confOf(CONFIG_run, engine_run),
                                                         "search_provider"))]
    /\ UNCHANGED <<prog, geckoPath, argEngine, dir, disk, dist>>

\* the statements of the loop body that throw: the parse of a text without
\* root element, ShortName of a missing SearchPlugin, [0] of a missing
\* ShortName or Description, mkdirSync of a directory that exists
fileThrows_run(doc, localeDir) ==
    \/ ~doc.marker
    \/ doc.root # "SearchPlugin"
    \/ "ShortName" \notin DOMAIN doc.plugin
    \/ "Description" \notin DOMAIN doc.plugin
    \/ localeDir \in DOMAIN staging["tmp/"]

\* one iteration of run's loop over the files
runFile ==
    /\ prog = "run" /\ pc = "files" /\ frame.k < Len(frame.files)
    /\ LET file == frame.files[frame.k + 1]
           locale == localeOf_run(file)
           locales == Append(frame.locales, locale)
           localeDir == "_locales/" \o locale \o "/"
           conf == confOf(CONFIG_run, frame.engine)
       IN  \E doc \in contentsOf(file) :
             /\ disk' = (file :> doc) @@ disk
             /\ IF fileThrows_run(doc, localeDir)
                THEN /\ pc' = "crashed"
                     /\ frame' = NoFrame
                     /\ results' = Append(results, ended("threw", frame.engine,
                                                         frame.tmpDir, frame.files, locales))
                     /\ UNCHANGED staging
                ELSE /\ staging' = writeFile(
                                     writeFile(staging, frame.tmpDir, localeDir, Directory),
                                     frame.tmpDir, localeDir \o "messages.json",
                                     assign([extensionName |->
                                               [message |-> doc.plugin.ShortName[1]],
                                             extensionDescription |->
                                               [message |-> doc.plugin.Description[1]],
                                             url_lang |-> [message |-> locale]],
                                            section(conf, "messages")))
                     /\ frame' = [frame EXCEPT !.k = @ + 1, !.locales = locales]
                     /\ UNCHANGED <<pc, results>>
    /\ UNCHANGED <<prog, templates, geckoPath, argEngine, dir, stale, engines, i, dist, log>>

\* the search provider run composes from the first file
searchProviderOf_run(engine, searchPlugin) ==
    LET conf == confOf(CONFIG_run, engine)
        sp0 == assign(SEARCH_PROVIDER_run, section(conf, "search_provider"))
    IN  IF "search_url" \in DOMAIN sp0 THEN sp0
        ELSE set(sp0, "search_url",
                 replace(searchPlugin.Url[1].template, "http:", "https:")
                 \o paramsToStr_run(searchPlugin.Url[1].Param))

\* the manifest run composes
manifestOf_run(engine, locales) ==
    LET conf == confOf(CONFIG_run, engine)
        m0 == assign(MANIFEST_run, section(conf, "manifest"))
        m1 == withId(m0, engine \o "@mozilla.org")
    IN  IF "default_locale" \in DOMAIN m1 THEN m1
        ELSE set(m1, "default_locale",
                 IF includes(locales, "en") THEN "en" ELSE locales[1])

\* run after its loop: the search url, the manifest, the archive
runCompose ==
    /\ prog = "run" /\ pc = "files" /\ frame.k = Len(frame.files)
    /\ LET engine == frame.engine
           searchPlugin == disk[frame.files[1]].plugin
           conf == confOf(CONFIG_run, engine)
           xpiPath == engine \o ".xpi"
           throws == /\ "search_url" \notin
                          DOMAIN assign(SEARCH_PROVIDER_run, section(conf, "search_provider"))
                     /\ \/ "Url" \notin DOMAIN searchPlugin
                        \/ "Param" \notin DOMAIN searchPlugin.Url[1]
       IN  IF throws
           THEN /\ pc' = "crashed"
                /\ results' = Append(results, ended("threw", engine, frame.tmpDir,
                                                    frame.files, frame.locales))
                /\ UNCHANGED <<staging, dist, log, templates>>
           ELSE /\ staging' = writeFile(staging, frame.tmpDir, "manifest.json",
                                  set(manifestOf_run(engine, frame.locales),
                                      "chrome_settings_overrides",
                                      [search_provider |->
                                         searchProviderOf_run(engine, searchPlugin)]))
                \* manifest and searchProvider are MANIFEST and SEARCH_PROVIDER:
                \* the search url, the id, the default locale and the settings
                \* override are assigned to the module-level objects
                /\ templates' = [templates EXCEPT
                               !.MANIFEST = set(manifestOf_run(engine, frame.locales),
                                                "chrome_settings_overrides",
                                                [search_provider |->
                                                   searchProviderOf_run(engine,
                                                                        searchPlugin)]),
                               !.SEARCH_PROVIDER = searchProviderOf_run(engine,
                                                                        searchPlugin)]
                /\ dist' = [dist EXCEPT !.xpi = @ \cup {xpiPath}]
                /\ log' = Append(log, [level |-> "log", text |-> "Complete! written",
                                       arg |-> xpiPath])
                /\ results' = Append(results, ended("complete", engine, frame.tmpDir,
                                                    frame.files, frame.locales))
                /\ pc' = "done"
    /\ frame' = NoFrame
    /\ UNCHANGED <<prog, geckoPath, argEngine, dir, stale, disk, engines, i>>

\* the loop of allEngines (or the single call of parseEngine) is over
finished ==
    /\ pc = "loop" /\ i = Len(engines)
    /\ pc' = "done"
    /\ UNCHANGED <<prog, templates, geckoPath, argEngine, dir, stale, disk, engines, i, frame,
                   staging, dist, log, results>>

Next ==
    \/ main_p0
    \/ allEngines_p0
    \/ parseEngine_p0
    \/ processFile_p0
    \/ compose_p0
    \/ main
    \/ allEngines
    \/ parseEngine
    \/ processFile
    \/ compose
    \/ singleLocaleExtension
    \/ run
    \/ runFile
    \/ runCompose
    \/ finished

Spec == Init /\ [][Next]_vars

(***************************************************************************)
(* The properties.  Each is stated over what the programs leave behind:    *)
(* the staging tree, the console, and the record of the engines whose      *)
(* processing ended.                                                       *)
(***************************************************************************)
\* the engines whose processing ended, in order
Ended == {results[j] : j \in 1..Len(results)}

\* the descriptor defects the loop over the files meets: text without
\* root-element marker, missing name, missing description, no endpoint at all
parseFails(doc) ==
    \/ ~doc.marker
    \/ "ShortName" \notin DOMAIN doc.plugin
    \/ "Description" \notin DOMAIN doc.plugin
    \/ "Url" \notin DOMAIN doc.plugin

\* the path of a locale's catalog below a staging directory
catalogPath(locale) == "_locales/" \o locale \o "/messages.json"

\* C1: a staging directory that exists when the processing of its engine
\* begins is left as it was found: nothing in it is created, written or
\* overwritten, whether the engine has one descriptor file or several.
C1_StagingLeftAlone == \A d \in stale : staging[d] = StaleTree

\* C2: in a run over all engines every engine of the list is started, however
\* the processing of an earlier engine ended: when the run is over, the loop
\* has reached the end of the list.
C2_EveryEngineStarted ==
    (prog \in {"part000", "index"} /\ argEngine = "" /\ pc \in {"done", "crashed"})
        => i = Len(engines)

\* C3: an engine of several files, of which some but not all fail to parse,
\* is composed all the same: its processing ends with the manifest written
\* and a catalog for every file that parsed.
C3_PartialFailureComposes ==
    \A r \in Ended :
        LET read == {j \in 1..Len(r.files) : r.files[j] \in DOMAIN disk}
            bad  == {j \in read : parseFails(disk[r.files[j]])}
        IN  (Len(r.files) >= 2 /\ bad # {} /\ read \ bad # {})
                => /\ r.outcome = "complete"
                   /\ "manifest.json" \in DOMAIN staging[r.tmpDir]
                   /\ \A j \in read \ bad :
                        j <= Len(r.locales)
                        /\ catalogPath(r.locales[j]) \in DOMAIN staging[r.tmpDir]

\* the loop over the files has written the catalog of at least one file
InFiles == pc = "files" /\ frame.k >= 1

\* the descriptor of the file whose catalog was written last, and that catalog
lastPlugin == disk[frame.files[frame.k]].plugin

lastCatalog == staging[frame.tmpDir][catalogPath(frame.locales[frame.k])]

\* the search provider of the manifest written for an engine
providerOf(r) ==
    staging[r.tmpDir]["manifest.json"].chrome_settings_overrides.search_provider

\* an endpoint with method GET (or none) and a non-empty parameter list
getWithParams(urlObj) ==
    "Param" \in DOMAIN urlObj /\ Len(urlObj.Param) > 0 /\ ~isPost(urlObj)

\* an endpoint with method POST and a non-empty parameter list
postWithParams(urlObj) ==
    "Param" \in DOMAIN urlObj /\ Len(urlObj.Param) > 0 /\ isPost(urlObj)

\* a url, one join character, the name=value pairs joined with "&"
joined(url, Param) ==
    url \o (IF indexOf(url, "?") = -1 THEN "?" ELSE "&") \o join(pairs(Param), "&")

\* C4: the url resolved for a GET endpoint with parameters is the template
\* url, exactly one join character, and the pairs: "?" when the url holds no
\* "?", "&" when it holds one.  Stated for the primary and the suggestion
\* endpoint and for the search form.
C4_JoinCharacter ==
    /\ (prog = "part000" /\ InFiles) =>
          LET Url == lastPlugin.Url
              search == Url[findSearch(Url)]
          IN  /\ getWithParams(search) =>
                    lastCatalog.searchUrl.message =
                        joined(replace(search.template, "http:", "https:"), search.Param)
              /\ (findSuggest(Url) # 0 /\ getWithParams(Url[findSuggest(Url)])) =>
                    lastCatalog.suggestUrl.message =
                        joined(replace(Url[findSuggest(Url)].template, "http:", "https:"),
                               Url[findSuggest(Url)].Param)
    /\ (prog = "index" /\ InFiles) =>
          LET Url == lastPlugin.Url
          IN  /\ (findSuggest(Url) # 0 /\ getWithParams(Url[findSuggest(Url)])) =>
                    lastCatalog.suggestUrl.message =
                        joined(Url[findSuggest(Url)].template, Url[findSuggest(Url)].Param)
              /\ ("SearchForm" \notin DOMAIN lastPlugin /\ findSearchForm(Url) # 0
                  /\ getWithParams(Url[findSearchForm(Url)])) =>
                    lastCatalog.searchForm.message =
                        joined(Url[findSearchForm(Url)].template,
                               Url[findSearchForm(Url)].Param)
    /\ prog = "run" =>
          \A r \in Ended :
              (r.outcome = "complete" /\ getWithParams(disk[r.files[1]].plugin.Url[1])) =>
                  providerOf(r).search_url =
                      joined(replace(disk[r.files[1]].plugin.Url[1].template,
                                     "http:", "https:"),
                             disk[r.files[1]].plugin.Url[1].Param)

\* C5: when the primary endpoint of an engine's representative descriptor has
\* method POST and parameters, the search provider of the composed manifest
\* carries the POST body, the pairs joined with "&", as a field of its own.
C5_PostBodyInProvider ==
    \A r \in Ended :
        (r.outcome = "complete" /\ Len(r.files) > 0
         /\ postWithParams(disk[r.files[1]].plugin.Url[
                               findSearch(disk[r.files[1]].plugin.Url)])) =>
            /\ "search_url_post_params" \in DOMAIN providerOf(r)
            /\ providerOf(r).search_url_post_params =
                   join(pairs(disk[r.files[1]].plugin.Url[
                                  findSearch(disk[r.files[1]].plugin.Url)].Param), "&")

\* a template with its leading scheme http: made https:, every other
\* character as it was
normalised(template) ==
    IF startsWith(template, "http:")
    THEN "https:" \o slice(template, Len("http:"), Len(template))
    ELSE template

\* C6: the url resolved for an endpoint begins with the template whose leading
\* http: is made https:; a template that begins with https: is taken as it
\* is, a later "http:" in it included.
C6_SchemeNormalised ==
    (prog \in {"part000", "index"} /\ InFiles) =>
        LET Url == lastPlugin.Url
        IN  /\ startsWith(lastCatalog.searchUrl.message,
                          normalised(Url[findSearch(Url)].template))
            /\ findSuggest(Url) # 0 =>
                  startsWith(lastCatalog.suggestUrl.message,
                             normalised(Url[findSuggest(Url)].template))

\* the file names the code resolves by name instead of by hyphen, with the
\* tags it gives them
overrideTable ==
    ("google-2018" :> "en") @@ ("bbc-alba" :> "en")
    @@ ("yahoo-jp-auctions" :> "jp") @@ ("amazondotcn" :> "cn")

\* whether a file's name is a key of the table, and the key
overridden(file) == \E key \in DOMAIN overrideTable : test(key, splitPop(file, "/"))

overrideKey(file) ==
    CHOOSE key \in DOMAIN overrideTable : test(key, splitPop(file, "/"))

\* the file whose catalog was written last, and the tag resolved for it
lastFile == frame.files[frame.k]

lastLocale == frame.locales[frame.k]

\* C7: a file whose name is a key of the override table resolves to the tag
\* the table gives it, wherever the name has its hyphens.
C7_OverrideFirst ==
    (InFiles /\ overridden(lastFile)) => lastLocale = overrideTable[overrideKey(lastFile)]

RECURSIVE underscored(_)
\* a string with every hyphen made an underscore
underscored(s) ==
    IF Len(s) = 0 THEN ""
    ELSE (IF Head(s) = Head("-") THEN "_" ELSE SubSeq(s, 1, 1)) \o underscored(Tail(s))

\* the candidate tag of a file name with a hyphen: what lies between the
\* first hyphen of the name and its extension, hyphens made underscores
candidate(file) ==
    underscored(slice(splitPop(file, "/"), indexOf(splitPop(file, "/"), "-") + 1, -4))

\* C8: a file whose name is no key of the override table resolves from the
\* name alone, not from its directory: to "en" when the name has no hyphen,
\* and else to the candidate, hyphens made underscores, or to "en" when the
\* candidate is not a known locale.
C8_ResolvedFromFileName ==
    (InFiles /\ ~overridden(lastFile)) =>
        IF indexOf(splitPop(lastFile, "/"), "-") = -1
        THEN lastLocale = "en"
        ELSE lastLocale \in {"en", candidate(lastFile)}

\* the manifest written for an engine
manifestWritten(r) == staging[r.tmpDir]["manifest.json"]

\* the tags of an engine's files, resolved anew from the paths
resolvedLocales(r) ==
    [j \in 1..Len(r.files) |->
        IF prog = "part000" THEN localeOf_p0(r.files[j])
        ELSE IF prog = "index" THEN normaliseLocale(r.files[j])
        ELSE localeOf_run(r.files[j])]

\* the engines composed as multi-locale bundles
multiLocale(r) ==
    r.outcome = "complete" /\ Len(r.files) > 0 /\ (prog = "index" => Len(r.files) >= 2)

\* C9: whenever a multi-locale bundle is composed, the default locale of the
\* manifest written for it is "en" when "en" is among the locales resolved
\* for the engine's files, wherever it stands among them, and the locale of
\* the first file otherwise.
C9_DefaultLocale ==
    [][Len(results') > Len(results) =>
          LET r == results'[Len(results')]
              locales == resolvedLocales(r)
          IN  multiLocale(r) =>
                  staging'[r.tmpDir]["manifest.json"].default_locale =
                      IF \E j \in 1..Len(locales) : locales[j] = "en"
                      THEN "en" ELSE locales[1]]_vars

\* C9, its case: a manifest parseEngine of index.js composed from three files
\* of which the last resolves to "en" and the first does not
C9_EnNotFirst ==
    \E r \in Ended :
        /\ prog = "index" /\ multiLocale(r) /\ Len(r.files) = 3
        /\ resolvedLocales(r)[1] # "en" /\ resolvedLocales(r)[3] = "en"
        /\ manifestWritten(r).default_locale = "en"

\* the icon of a descriptor: none, or how its uri is dispatched
iconCase(searchPlugin) ==
    IF "Image" \notin DOMAIN searchPlugin THEN "none"
    ELSE iconKind(trim(searchPlugin.Image[1].text))

\* an inline icon whose content type the program's extension table lacks
unlisted(searchPlugin) ==
    /\ iconCase(searchPlugin) = "data"
    /\ IF prog = "index"
       THEN typeToExtensionThrows(dataUriType(trim(searchPlugin.Image[1].text)))
       ELSE typeToExtension_p0(dataUriType(trim(searchPlugin.Image[1].text))) = "undefined"

\* every file of the engine was read and none stopped the engine before the
\* icon step
reachedIconStep(r) ==
    /\ Len(r.files) > 0
    /\ \A j \in 1..Len(r.files) :
          /\ r.files[j] \in DOMAIN disk
          /\ IF prog = "part000" THEN ~fileThrows_p0(disk[r.files[j]])
             ELSE IF Len(r.files) = 1 THEN ~singleThrows(r.files[j], disk[r.files[j]])
             ELSE ~fileThrows(r.engine, disk[r.files[j]])

\* C10: the icon step never makes the composition fail.  With no icon, a
\* remote icon, an unrecognised reference or an inline icon of an unlisted
\* content type the manifest is written all the same; in the last two cases
\* it has no icon field, no favicon file is written and a warning is logged.
C10_IconNeverFails ==
    \A r \in Ended :
        (prog \in {"part000", "index"} /\ reachedIconStep(r)
         /\ (iconCase(disk[r.files[1]].plugin) \in {"none", "http", "other"}
             \/ unlisted(disk[r.files[1]].plugin))) =>
            /\ r.outcome = "complete"
            /\ "manifest.json" \in DOMAIN staging[r.tmpDir]
            /\ (iconCase(disk[r.files[1]].plugin) = "other"
                \/ unlisted(disk[r.files[1]].plugin)) =>
                  /\ "icons" \notin DOMAIN manifestWritten(r)
                  /\ \A path \in DOMAIN staging[r.tmpDir] : ~startsWith(path, "favicon")
                  /\ \E j \in 1..Len(log) : log[j].level = "warn"

\* the static override of the engine a record is about: CONFIG[engine] || {}
overrideOf(r) ==
    confOf(IF prog = "part000" THEN CONFIG_p0
           ELSE IF prog = "index" THEN CONFIG ELSE CONFIG_run, r.engine)

\* C11: every field an engine's static override supplies, in its manifest,
\* search_provider or messages section, has the override's value in the
\* composed bundle: neither a computed value nor a base-template value
\* replaces it.
C11_OverridesWin ==
    \A r \in Ended :
        r.outcome = "complete" =>
            LET conf == overrideOf(r)
            IN  /\ \A field \in DOMAIN section(conf, "search_provider") :
                      /\ field \in DOMAIN providerOf(r)
                      /\ providerOf(r)[field] = conf.search_provider[field]
                /\ \A field \in DOMAIN section(conf, "manifest") :
                      /\ field \in DOMAIN manifestWritten(r)
                      /\ manifestWritten(r)[field] = conf.manifest[field]
                /\ \A field \in DOMAIN section(conf, "messages") :
                      \A j \in 1..Len(r.locales) :
                          LET catalog == staging[r.tmpDir][catalogPath(r.locales[j])]
                          IN  /\ field \in DOMAIN catalog
                              /\ catalog[field] = conf.messages[field]

\* the endpoints of a descriptor that are (are not) of the suggestion type
\* and have no endpoint of that kind before them
firstOfType(Url, suggestion) ==
    {p \in 1..Len(Url) :
        /\ (Url[p].type = SUGGEST_TYPE) = suggestion
        /\ \A h \in 1..(p - 1) : (Url[h].type = SUGGEST_TYPE) # suggestion}

\* a descriptor that is well formed and has endpoints
hasEndpoints(doc) ==
    ~parseFails(doc) /\ Len(doc.plugin.Url) >= 1

\* C12: the primary endpoint of a descriptor with endpoints is its first
\* endpoint that is not of the suggestion type, the suggestion endpoint its
\* first of that type, absent when there is none; resolving the primary
\* endpoint never ends in an error, not even when every endpoint is of the
\* suggestion type.
C12_PrimaryEndpoint ==
    /\ (prog \in {"part000", "index"} /\ InFiles) =>
          LET Url == lastPlugin.Url
          IN  /\ \E p \in firstOfType(Url, FALSE) :
                    lastCatalog.searchUrl.message =
                        IF prog = "part000" THEN urlOf_p0(Url[p]) ELSE Url[p].template
              /\ ("suggestUrl" \in DOMAIN lastCatalog) = (firstOfType(Url, TRUE) # {})
              /\ \A p \in firstOfType(Url, TRUE) :
                    startsWith(lastCatalog.suggestUrl.message,
                               IF prog = "part000"
                               THEN replace(Url[p].template, "http:", "https:")
                               ELSE Url[p].template)
    /\ prog = "run" =>
          \A r \in Ended :
              (r.outcome = "complete" /\ hasEndpoints(disk[r.files[1]])
               /\ "search_url" \notin DOMAIN section(overrideOf(r), "search_provider")) =>
                  \E p \in firstOfType(disk[r.files[1]].plugin.Url, FALSE) :
                      startsWith(providerOf(r).search_url,
                                 replace(disk[r.files[1]].plugin.Url[p].template,
                                         "http:", "https:"))
    /\ \A r \in Ended :
          \A j \in 1..Len(r.files) :
              (r.files[j] \in DOMAIN disk /\ hasEndpoints(disk[r.files[j]])) =>
                  \/ r.outcome # "threw"
                  \/ firstOfType(disk[r.files[j]].plugin.Url, FALSE) # {}

primaryOf(searchPlugin) == searchPlugin.Url[findSearch(searchPlugin.Url)]

\* an endpoint that declares vendor parameters
hasVendorParams(urlObj) == "MozParam" \in DOMAIN urlObj /\ Len(urlObj.MozParam) > 0

\* C14: the vendor parameters of a resolved endpoint, of either method, are
\* the declared ones, in declaration order, name, value and purpose as
\* declared; composing a bundle changes none of them.
C14_VendorParamsUnmodified ==
    /\ (prog = "part000" /\ InFiles /\ hasVendorParams(primaryOf(lastPlugin))) =>
          /\ "params" \in DOMAIN parseUrlObj_p0(primaryOf(lastPlugin))
          /\ parseUrlObj_p0(primaryOf(lastPlugin)).params = primaryOf(lastPlugin).MozParam
    /\ prog = "index" =>
          \A r \in Ended :
              (r.outcome = "complete"
               /\ hasVendorParams(primaryOf(disk[r.files[1]].plugin))) =>
                  /\ "params" \in DOMAIN providerOf(r)
                  /\ providerOf(r).params = primaryOf(disk[r.files[1]].plugin).MozParam

\* the extension id an engine gets when it is processed on its own: the one
\* of its override, or else one made of the name its bundle is staged under
ownId(r) ==
    LET over == section(overrideOf(r), "manifest")
    IN  IF "applications" \in DOMAIN over /\ "id" \in DOMAIN over.applications.gecko
        THEN over.applications.gecko.id
        ELSE IF prog = "index" THEN slice(r.tmpDir, 4, -1) \o "@search.mozilla.org"
        ELSE IF prog = "part000" THEN slice(r.tmpDir, 4, -1) \o "@mozilla.org"
        ELSE r.engine \o "@mozilla.org"

\* C15: whatever has been processed, MANIFEST, SEARCH_PROVIDER and CONFIG hold
\* the values the program text gives them, and every manifest written
\* carries the id of its own engine, not one set while composing another.
C15_TemplatesUntouched ==
    /\ templates = baseOf(prog)
    /\ \A r \in Ended :
          (r.outcome = "complete" /\ r.tmpDir \notin stale) =>
              manifestWritten(r).applications.gecko.id = ownId(r)

\* the values of a written manifest in which a message reference may stand:
\* the four url fields of the search provider, the values of its vendor
\* parameters, the icons
referenceSites(r) ==
    LET provider == providerOf(r)
        manifest == manifestWritten(r)
    IN  {provider[f] : f \in DOMAIN provider \cap
                               {"search_url", "search_form", "suggest_url",
                                "search_url_get_params"}}
        \cup (IF prog = "index" /\ "params" \in DOMAIN provider
              THEN {provider.params[j].value : j \in 1..Len(provider.params)}
              ELSE {})
        \cup (IF "icons" \in DOMAIN manifest
              THEN {manifest.icons[size] : size \in DOMAIN manifest.icons}
              ELSE {})

\* the values among them that open a message reference
referencesOf(r) == {v \in referenceSites(r) : startsWith(v, "__MSG_")}

\* a reference closed by "__", and the key it names
closed(v) == Len(v) >= 8 /\ SubSeq(v, Len(v) - 1, Len(v)) = "__"
keyOf(v) == SubSeq(v, 7, Len(v) - 2)

\* C16: in every multi-locale bundle, every message reference of the written
\* manifest is closed by "__", and every catalog written for the engine
\* defines its key with a string message.
C16_ReferencesResolve ==
    \A r \in Ended :
        multiLocale(r) =>
            \A v \in referencesOf(r) :
                /\ closed(v)
                /\ \A j \in 1..Len(r.locales) :
                      LET catalog == staging[r.tmpDir][catalogPath(r.locales[j])]
                      IN  /\ keyOf(v) \in DOMAIN catalog
                          /\ DOMAIN catalog[keyOf(v)] = {"message"}

\* the catalogs an engine's bundle holds once composed
catalogsOf(r) ==
    {catalogPath(r.locales[j]) : j \in 1..Len(r.locales)} \cap DOMAIN staging[r.tmpDir]

\* C17: the files of one engine's group resolve to pairwise distinct locale
\* tags, and the bundle composed from them holds as many catalogs as files
\* were processed, none written over by a later file's.
C17_DistinctLocales ==
    \A r \in Ended :
        multiLocale(r) =>
            /\ \A a, b \in 1..Len(r.locales) : a # b => r.locales[a] # r.locales[b]
            /\ Cardinality(catalogsOf(r)) = Len(r.files)

====
